---- MODULE Spec2Model ----
(***************************************************************************)
(* State-machine model of the communication layer of the DrawBot VS Code   *)
(* extension, and of the error log:                                        *)
(*   - TypeSafeWebSocketManager (communication/websocket-manager.ts)       *)
(*   - TypeSafeAPIClient        (communication/api-client.ts)              *)
(*   - ErrorManager             (managers/error-manager.ts)                *)
(* The classes share no state.  Spec runs the connection manager for one   *)
(* key, SpecMsg runs it together with the frames its sockets receive, and  *)
(* SpecKeys does the same with two keys in use.  SpecApi runs the request  *)
(* client with one request per dedupe key and responses without a body,    *)
(* SpecApiFull with every request and response.  SpecErr runs the error    *)
(* log.                                                                    *)
(***************************************************************************)
EXTENDS Integers, Sequences, FiniteSets, TLC

(***************************************************************************)
(* Bounds of the model.                                                    *)
(***************************************************************************)
\* sockets ever created by one manager instance
MaxSockets == 2
\* sendMessage calls ever made on one manager instance
MaxMessages == 3
\* WebSocketConfig.maxReconnectAttempts as passed to the constructor
MaxReconnectAttempts == 2
\* WebSocketConfig.messageQueueMaxSize as passed to the constructor
MessageQueueMaxSize == 2

\* WebSocketConfig.maxReconnectInterval as passed to the constructor (ms): low
\* enough for the second delay of a run to reach it
MaxReconnectInterval == 1500

\* WebSocketConfig defaults kept by the model
ReconnectInterval == 1000
ReconnectBackoffMultiplier == 2

\* connection keys: 'server' (connectToServer), 'sketch-a' (connectToSketch)
Keys == {"server", "sketch-a"}
SockIds == 1..MaxSockets
NoSock == 0

VARIABLES
    \* --- TypeSafeWebSocketManager fields ---
    config,             \* WebSocketConfig
    callerKeys,         \* the keys the callers of this manager instance use
    connections,        \* Map key -> socket (NoSock: no entry)
    connectionStatus,   \* Map key -> ConnectionStatus, as getConnectionStatus reads it
    reconnectAttempts,  \* Map key -> number, as getReconnectAttempts reads it
    reconnectTimers,    \* Map key -> timer: TRUE iff the map holds an entry
    heartbeatTimers,    \* Map key -> timer: TRUE iff the map holds an entry
    messageQueues,      \* Map key -> message[] (<<>>: no entry or empty)
    \* --- the runtime around the manager ---
    pendingReconnects,  \* key -> number of setTimeout callbacks of handleReconnection not yet run
    runningHeartbeats,  \* key -> number of setInterval timers of startHeartbeat not cleared
    sockKey,            \* socket -> the key its handlers close over ("none": not created)
    readyState,         \* socket -> readyState of the ws object
    delays,             \* key -> delays handed to setTimeout since the counter was last reset
    nextMessageId,      \* the number of the next sendMessage call
    last                \* the operation that ran last and what it emitted

wsVars == <<config, callerKeys, connections, connectionStatus, reconnectAttempts, reconnectTimers,
            heartbeatTimers, messageQueues, pendingReconnects, runningHeartbeats,
            sockKey, readyState, delays, nextMessageId, last>>

\* bounds of the request-client model
\* deduplicatedRequest calls ever made on one client instance
MaxCalls == 2
\* 429 responses the backend gives to one client instance
MaxRateLimited == 2

\* the requests callers make: getHealth(), executeSketch('a', options) with two
\* different options, getMetrics()
ApiRequests ==
    {[fn |-> "getHealth", name |-> "", options |-> ""],
     [fn |-> "executeSketch", name |-> "a", options |-> "preview"],
     [fn |-> "executeSketch", name |-> "a", options |-> "timeout"],
     [fn |-> "getMetrics", name |-> "", options |-> ""]}
NoRequest == [fn |-> "none", name |-> "", options |-> ""]

\* the methods that go through deduplicatedRequest; the others (getSketchStatus,
\* exportSketch, getMetrics) hand their request to the transport directly
Deduplicated == {"getHealth", "getSketchList", "executeSketch", "executeBatch"}

\* the cache key of a deduplicated method
cacheKey(r) ==
    CASE r.fn = "getHealth"     -> "health"
      [] r.fn = "executeSketch" -> "execute-" \o r.name

\* method, path and body of the HTTP request a method sends
requestLine(r) ==
    CASE r.fn = "getHealth"     -> <<"get", "/health", "">>
      [] r.fn = "executeSketch" -> <<"post", "/api/v1/sketches/" \o r.name \o "/execute",
                                     r.options>>
      [] r.fn = "getMetrics"    -> <<"get", "/api/v1/metrics", "">>

\* dedupe keys: 'health' (getHealth), 'execute-a' (executeSketch)
DedupeKeys == {cacheKey(r) : r \in {x \in ApiRequests : x.fn \in Deduplicated}}
\* the key recorded for a request that bypasses the dedup map
Direct == "direct"
CallIds == 1..MaxCalls
NoPromise == 0

VARIABLES
    \* --- TypeSafeAPIClient fields ---
    requestDeduplication, \* Map key -> promise (NoPromise: no entry)
    \* --- the runtime around the client ---
    promKey,            \* promise -> the key its creator registered it under ("none": not created)
    promState,          \* promise -> "inflight", "backoff" (handleRateLimit waiting), "fulfilled", "rejected"
    promOutcome,        \* promise -> the value or error it settled with ("none": unsettled)
    transportCalls,     \* promise -> requests handed to the transport for it
    graceTimers,        \* promise -> TRUE iff its creator's setTimeout(delete, 1000) is pending
    callProm,           \* call -> the promise the caller awaits (NoPromise: call not made)
    callResult,         \* call -> what the caller observed ("pending" until settled)
    callReq,            \* call -> the request the caller made (NoRequest: call not made)
    callOverlap,        \* call -> the earlier same-key calls still unsettled when it was issued
    apiLast             \* the client operation that ran last

apiVars == <<requestDeduplication, promKey, promState, promOutcome, transportCalls,
             graceTimers, callProm, callResult, callReq, callOverlap, apiLast>>

\* maxLogSize of the ErrorManager (1000 in the source), scaled down
MaxLogSize == 2
\* the errors handled in one run
MaxErrors == 4

\* the severities and categories of the handled errors (ErrorSeverity, and two
\* of the six values of ErrorCategory)
Severities == {"fatal", "warning", "info"}
Categories == {"network", "extension"}

VARIABLES
    \* --- ErrorManager fields ---
    errorLog,           \* ExtensionError[]: records [id, severity, category]
    \* --- the runtime around the manager ---
    handled,            \* the errors handleError was called with since the log was last cleared
    nextErrorId         \* the number of the next error

errVars == <<errorLog, handled, nextErrorId>>

vars == <<wsVars, apiVars, errVars>>

(***************************************************************************)
(* Helpers.                                                                *)
(***************************************************************************)
Min(a, b) == IF a <= b THEN a ELSE b

RECURSIVE Pow(_, _)
Pow(b, e) == IF e = 0 THEN 1 ELSE b * Pow(b, e - 1)

\* the record kept in last: the operation, its key, socket, code (the close code
\* of a socket event; for sendMessage the message it evicted, 0 for none), a number
\* (the message id of a sendMessage), whether every ws.send of it succeeded; the
\* handlers add ev, what was emitted, and tx, the messages transmitted, in order;
\* from and att are the status and the reconnect counter of the key before it ran,
\* frame is the data of an inbound frame
Op(op, key, sock, code, n, ok) ==
    [op |-> op, key |-> key, sock |-> sock, code |-> code, n |-> n, ok |-> ok,
     frame |-> "none",
     from |-> IF key \in Keys THEN connectionStatus[key] ELSE "none",
     att |-> IF key \in Keys THEN reconnectAttempts[key] ELSE 0,
     ev |-> <<>>, tx |-> <<>>]

\* one emitted notification (EventEmitter.emit) or scheduled timer
Ev(name, key, arg) == [name |-> name, key |-> key, arg |-> arg]

(***************************************************************************)
(* The manager as a record, so that handlers compose as the code calls     *)
(* them.                                                                   *)
(***************************************************************************)
Mgr == [status |-> connectionStatus, conn |-> connections, attempts |-> reconnectAttempts,
        rtimer |-> reconnectTimers, rpending |-> pendingReconnects,
        hb |-> heartbeatTimers, hbRunning |-> runningHeartbeats,
        queue |-> messageQueues, rs |-> readyState,
        delays |-> delays, ev |-> <<>>, tx |-> <<>>]

Install(m, op) ==
    /\ connectionStatus' = m.status
    /\ connections' = m.conn
    /\ reconnectAttempts' = m.attempts
    /\ reconnectTimers' = m.rtimer
    /\ pendingReconnects' = m.rpending
    /\ heartbeatTimers' = m.hb
    /\ runningHeartbeats' = m.hbRunning
    /\ messageQueues' = m.queue
    /\ readyState' = m.rs
    /\ delays' = m.delays
    /\ last' = [op EXCEPT !.ev = m.ev, !.tx = m.tx]
    /\ UNCHANGED <<apiVars, errVars>>

emit(m, name, key, arg) == [m EXCEPT !.ev = Append(@, Ev(name, key, arg))]

getConnectionStatus(m, k) == m.status[k]

setConnectionStatus(m, k, st) ==
    emit([m EXCEPT !.status[k] = st], "statusChanged", k, st)

getReconnectAttempts(m, k) == m.attempts[k]

isConnected(m, k) == m.conn[k] # NoSock /\ m.rs[m.conn[k]] = "open"

startHeartbeat(m, k) ==
    [m EXCEPT !.hbRunning[k] = @ + 1, !.hb[k] = TRUE]

stopHeartbeat(m, k) ==
    IF m.hb[k] THEN [m EXCEPT !.hbRunning[k] = @ - 1, !.hb[k] = FALSE] ELSE m

(***************************************************************************)
(* queueMessage: push, then drop the oldest when over messageQueueMaxSize. *)
(***************************************************************************)
queueMessage_DropNewest(m, k, msg) ==
    LET pushed == Append(m.queue[k], msg)
    IN  [m EXCEPT !.queue[k] = IF Len(pushed) > config.messageQueueMaxSize
                                 THEN SubSeq(pushed, 1, Len(pushed) - 1)
                                 ELSE pushed]

queueMessage(m, k, msg) ==
    LET pushed == Append(m.queue[k], msg)
    IN  [m EXCEPT !.queue[k] = IF Len(pushed) > config.messageQueueMaxSize
                                 THEN Tail(pushed)
                                 ELSE pushed]

(***************************************************************************)
(* flushMessageQueue: shift and send until the queue is empty; a send that *)
(* throws puts its message back at the front and ends the loop.  nOk is    *)
(* the number of sends that succeed before ws.send throws (at least the    *)
(* queue's length: none throws).                                           *)
(***************************************************************************)
flushMessageQueue_Reversed(m, k, nOk) ==
    LET q  == m.queue[k]
        ws == m.conn[k]
        n  == Min(nOk, Len(q))
    IN  IF Len(q) = 0 THEN m
        ELSE IF ws = NoSock \/ m.rs[ws] # "open" THEN m
        ELSE [m EXCEPT !.tx = @ \o [i \in 1..n |-> q[Len(q) + 1 - i]],
                       !.queue[k] = SubSeq(q, 1, Len(q) - n)]

flushMessageQueue_KeepsSent(m, k, nOk) ==
    LET q  == m.queue[k]
        ws == m.conn[k]
        n  == Min(nOk, Len(q))
    IN  IF Len(q) = 0 THEN m
        ELSE IF ws = NoSock \/ m.rs[ws] # "open" THEN m
        ELSE [m EXCEPT !.tx = @ \o SubSeq(q, 1, n)]

flushMessageQueue_DropsFailed(m, k, nOk) ==
    LET q  == m.queue[k]
        ws == m.conn[k]
        n  == Min(nOk, Len(q))
    IN  IF Len(q) = 0 THEN m
        ELSE IF ws = NoSock \/ m.rs[ws] # "open" THEN m
        ELSE [m EXCEPT !.tx = @ \o SubSeq(q, 1, n),
                       !.queue[k] = SubSeq(q, n + 2, Len(q))]

flushMessageQueue(m, k, nOk) ==
    LET q  == m.queue[k]
        ws == m.conn[k]
        n  == Min(nOk, Len(q))
    IN  IF Len(q) = 0 THEN m
        ELSE IF ws = NoSock \/ m.rs[ws] # "open" THEN m
        ELSE [m EXCEPT !.tx = @ \o SubSeq(q, 1, n),
                       !.queue[k] = SubSeq(q, n + 1, Len(q))]

(***************************************************************************)
(* handleReconnection: Failed once the counter has reached the maximum,    *)
(* otherwise Reconnecting, counter + 1 and a timer after the backoff delay.*)
(***************************************************************************)
reconnectDelay_NoCap(cfg, attempts) ==
    cfg.reconnectInterval * Pow(cfg.reconnectBackoffMultiplier, attempts)

reconnectDelay(cfg, attempts) ==
    Min(cfg.reconnectInterval * Pow(cfg.reconnectBackoffMultiplier, attempts),
        cfg.maxReconnectInterval)

handleReconnection_OneMore(m, k) ==
    LET attempts == getReconnectAttempts(m, k)
    IN  IF attempts > config.maxReconnectAttempts
        THEN emit(setConnectionStatus(m, k, "failed"), "connectionFailed", k, attempts)
        ELSE LET m1    == setConnectionStatus(m, k, "reconnecting")
                 delay == reconnectDelay(config, attempts)
                 m2    == [m1 EXCEPT !.attempts[k] = attempts + 1,
                                     !.rpending[k] = @ + 1,
                                     !.rtimer[k] = TRUE,
                                     !.delays[k] = Append(@, delay)]
             IN  emit(m2, "setTimeout", k, delay)

handleReconnection_NoNotification(m, k) ==
    LET attempts == getReconnectAttempts(m, k)
    IN  IF attempts >= config.maxReconnectAttempts
        THEN setConnectionStatus(m, k, "failed")
        ELSE LET m1    == setConnectionStatus(m, k, "reconnecting")
                 delay == reconnectDelay(config, attempts)
                 m2    == [m1 EXCEPT !.attempts[k] = attempts + 1,
                                     !.rpending[k] = @ + 1,
                                     !.rtimer[k] = TRUE,
                                     !.delays[k] = Append(@, delay)]
             IN  emit(m2, "setTimeout", k, delay)

handleReconnection(m, k) ==
    LET attempts == getReconnectAttempts(m, k)
    IN  IF attempts >= config.maxReconnectAttempts
        THEN emit(setConnectionStatus(m, k, "failed"), "connectionFailed", k, attempts)
        ELSE LET m1    == setConnectionStatus(m, k, "reconnecting")
                 delay == reconnectDelay(config, attempts)
                 m2    == [m1 EXCEPT !.attempts[k] = attempts + 1,
                                     !.rpending[k] = @ + 1,
                                     !.rtimer[k] = TRUE,
                                     !.delays[k] = Append(@, delay)]
             IN  emit(m2, "setTimeout", k, delay)

(***************************************************************************)
(* handleConnectionClose / handleConnectionError.                          *)
(***************************************************************************)
handleConnectionClose_NoCleanCase(m, k, code) ==
    LET m1 == stopHeartbeat([m EXCEPT !.conn[k] = NoSock], k)
    IN  IF getReconnectAttempts(m1, k) >= config.maxReconnectAttempts
        THEN emit(setConnectionStatus(m1, k, "disconnected"), "disconnected", k, code)
        ELSE handleReconnection(m1, k)

handleConnectionClose(m, k, code) ==
    LET m1 == stopHeartbeat([m EXCEPT !.conn[k] = NoSock], k)
    IN  IF code = 1000 \/ getReconnectAttempts(m1, k) >= config.maxReconnectAttempts
        THEN emit(setConnectionStatus(m1, k, "disconnected"), "disconnected", k, code)
        ELSE handleReconnection(m1, k)

handleConnectionError(m, k) ==
    LET m1 == emit(m, "error", k, 0)
    IN  IF getConnectionStatus(m1, k) = "connected"
        THEN handleReconnection(m1, k)
        ELSE m1

(***************************************************************************)
(* The 'open' handler of createConnection.                                 *)
(***************************************************************************)
onOpen(m, ws, nOk) ==
    LET k  == sockKey[ws]
        m1 == setConnectionStatus([m EXCEPT !.rs[ws] = "open"], k, "connected")
        m2 == [m1 EXCEPT !.conn[k] = ws, !.attempts[k] = 0, !.delays[k] = <<>>]
        m3 == startHeartbeat(m2, k)
        m4 == flushMessageQueue(m3, k, nOk)
    IN  emit(m4, "connected", k, ws)

(***************************************************************************)
(* cleanup / closeConnection.                                              *)
(***************************************************************************)
cleanup_EveryQueue(m, k) ==
    LET m1 == [m EXCEPT !.conn[k] = NoSock,
                        !.status[k] = "disconnected",
                        !.attempts[k] = 0,
                        !.delays[k] = <<>>,
                        !.queue = [x \in Keys |-> <<>>]]
        m2 == stopHeartbeat(m1, k)
    IN  IF m2.rtimer[k]
        THEN [m2 EXCEPT !.rpending[k] = @ - 1, !.rtimer[k] = FALSE]
        ELSE m2

\* cleanup(connectionKey): forgets the key's socket, status, counter, queue and
\* timers
cleanup(m, k) ==
    LET m1 == [m EXCEPT !.conn[k] = NoSock,
                        !.status[k] = "disconnected",
                        !.attempts[k] = 0,
                        !.delays[k] = <<>>,
                        !.queue[k] = <<>>]
        m2 == stopHeartbeat(m1, k)
    IN  IF m2.rtimer[k]
        THEN [m2 EXCEPT !.rpending[k] = @ - 1, !.rtimer[k] = FALSE]
        ELSE m2

\* ws.close(1000, ...) on the socket object: an open socket starts the closing
\* handshake, any other state is left as it is
wsClose(m, ws) ==
    IF m.rs[ws] = "open" THEN [m EXCEPT !.rs[ws] = "closing"] ELSE m

closeConnection(m, k) ==
    LET ws == m.conn[k]
    IN  cleanup(IF ws # NoSock THEN wsClose(m, ws) ELSE m, k)

\* closeAllConnections: closeConnection for every key of the connections map
RECURSIVE closeEach(_, _)
closeEach(m, ks) ==
    IF ks = {} THEN m
    ELSE LET k == CHOOSE x \in ks : TRUE
         IN  closeEach(closeConnection(m, k), ks \ {k})

closeAllConnections(m) == closeEach(m, {k \in Keys : m.conn[k] # NoSock})

(***************************************************************************)
(* sendMessage: transmit on an open socket, queue otherwise.               *)
(***************************************************************************)
sendMessage_QueuesOnFailure(m, k, msg, throws) ==
    LET ws == m.conn[k]
    IN  IF ws # NoSock /\ m.rs[ws] = "open"
        THEN IF throws THEN queueMessage(m, k, msg) ELSE [m EXCEPT !.tx = Append(@, msg)]
        ELSE queueMessage(m, k, msg)

\* sendMessage(connectionKey, message): ws.send on a registered open socket
\* (a send that throws rejects the call), queueMessage otherwise
sendMessage(m, k, msg, throws) ==
    LET ws == m.conn[k]
    IN  IF ws # NoSock /\ m.rs[ws] = "open"
        THEN IF throws THEN m ELSE [m EXCEPT !.tx = Append(@, msg)]
        ELSE queueMessage(m, k, msg)

(***************************************************************************)
(* getConnectionStats: one pass over the keys of the connections map.      *)
(***************************************************************************)
\* the number the loop adds up over the keys ks, f(k) for each
RECURSIVE SumOver(_, _)
SumOver(ks, f) ==
    IF ks = {} THEN 0
    ELSE LET k == CHOOSE x \in ks : TRUE
         IN  f[k] + SumOver(ks \ {k}, f)

getConnectionStats(m) ==
    LET registered == {k \in Keys : m.conn[k] # NoSock}
    IN  [totalConnections |-> Cardinality(registered),
         activeConnections |-> Cardinality({k \in registered : isConnected(m, k)}),
         queuedMessages |-> SumOver(registered, [k \in Keys |-> Len(m.queue[k])]),
         reconnectingConnections |->
             Cardinality({k \in registered : getConnectionStatus(m, k) = "reconnecting"})]

(***************************************************************************)
(* Inbound frames.  The data of a frame is the type its JSON text carries, *)
(* or text that is not JSON.  KnownTypes are the types the switch of       *)
(* handleMessage has a case for; 'execution_started' stands for the types  *)
(* of the wire contract the WebSocketMessage union lacks (also             *)
(* execution-failed, file-changed), 'telemetry' for a type outside it.     *)
(***************************************************************************)
KnownTypes == {"sketch_updated", "execution_complete", "server_status", "error"}
HeartbeatTypes == {"ping", "pong"}
FrameTypes == KnownTypes \cup HeartbeatTypes \cup {"execution_started", "telemetry"}
NotJson == "not-json"
FrameData == FrameTypes \cup {NotJson}

\* the payload every frame of the model carries
FramePayload == "payload"

\* the name of the typed notification of a known type
TypedEvent(type) ==
    CASE type = "sketch_updated"     -> "sketchUpdated"
      [] type = "execution_complete" -> "executionComplete"
      [] type = "server_status"      -> "serverStatus"
      [] type = "error"              -> "error"

\* handleMessage: 'pong' returns at once; a known type emits its typed
\* notification with the payload's fields; any other type is logged with
\* console.warn; then the generic 'message' notification is emitted
handleMessage(m, k, type) ==
    IF type = "pong" THEN m
    ELSE LET m1 == IF type \in KnownTypes
                   THEN emit(m, TypedEvent(type), k, FramePayload)
                   ELSE m
         IN  emit(m1, "message", k, type)

\* the 'message' handler of createConnection: JSON.parse, then handleMessage;
\* text that does not parse is reported with an 'error' notification
onMessage(m, k, data) ==
    IF data = NotJson
    THEN emit(m, "error", k, "Invalid message format")
    ELSE handleMessage(m, k, data)

(***************************************************************************)
(* Initial state: a freshly constructed manager.                           *)
(***************************************************************************)
WsInit(ks) ==
    \* the constructor's config: reconnection switched off (0 attempts) or bounded
    /\ \E a \in {0, MaxReconnectAttempts} :
          config = [maxReconnectAttempts |-> a,
                    reconnectInterval |-> ReconnectInterval,
                    maxReconnectInterval |-> MaxReconnectInterval,
                    reconnectBackoffMultiplier |-> ReconnectBackoffMultiplier,
                    messageQueueMaxSize |-> MessageQueueMaxSize]
    /\ callerKeys = ks
    /\ connections = [k \in Keys |-> NoSock]
    /\ connectionStatus = [k \in Keys |-> "disconnected"]
    /\ reconnectAttempts = [k \in Keys |-> 0]
    /\ reconnectTimers = [k \in Keys |-> FALSE]
    /\ heartbeatTimers = [k \in Keys |-> FALSE]
    /\ messageQueues = [k \in Keys |-> <<>>]
    /\ pendingReconnects = [k \in Keys |-> 0]
    /\ runningHeartbeats = [k \in Keys |-> 0]
    /\ sockKey = [s \in SockIds |-> "none"]
    /\ readyState = [s \in SockIds |-> "none"]
    /\ delays = [k \in Keys |-> <<>>]
    /\ nextMessageId = 1
    /\ last = Op("init", "none", NoSock, 0, 0, TRUE)

(***************************************************************************)
(* Caller operations.                                                      *)
(***************************************************************************)
\* connectToSketch / connectToServer, with createConnection
ConnectToKey(k) ==
    IF isConnected(Mgr, k)
    THEN /\ last' = Op("connect", k, connections[k], 0, 0, TRUE)
         /\ UNCHANGED <<apiVars, errVars>>
         /\ UNCHANGED <<config, callerKeys, connections, connectionStatus, reconnectAttempts,
                        reconnectTimers, heartbeatTimers, messageQueues,
                        pendingReconnects, runningHeartbeats, sockKey, readyState,
                        delays, nextMessageId>>
    ELSE /\ \E s \in SockIds : sockKey[s] = "none"
         /\ LET ws == CHOOSE s \in SockIds :
                        sockKey[s] = "none" /\ \A r \in SockIds : r < s => sockKey[r] # "none"
                m  == setConnectionStatus([Mgr EXCEPT !.rs[ws] = "connecting"], k, "connecting")
            IN  /\ Install(m, Op("connect", k, ws, 0, 0, TRUE))
                /\ sockKey' = [sockKey EXCEPT ![ws] = k]
         /\ UNCHANGED <<config, callerKeys, nextMessageId>>

SendMessage(k) ==
    /\ nextMessageId <= MaxMessages
    /\ \E throws \in BOOLEAN :
         /\ throws => isConnected(Mgr, k)
         /\ LET m   == sendMessage(Mgr, k, nextMessageId, throws)
                old == messageQueues[k]
                \* the oldest queued message, when this call removed it from the queue
                evicted == IF old # <<>> /\ \A i \in 1..Len(m.queue[k]) : m.queue[k][i] # old[1]
                           THEN old[1] ELSE 0
            IN  Install(m, Op("sendMessage", k,
                              IF isConnected(Mgr, k) THEN connections[k] ELSE NoSock,
                              evicted, nextMessageId, ~throws))
    /\ nextMessageId' = nextMessageId + 1
    /\ UNCHANGED <<config, callerKeys, sockKey>>

CloseConnection(k) ==
    /\ Install(closeConnection(Mgr, k), Op("closeConnection", k, connections[k], 1000, 0, TRUE))
    /\ UNCHANGED <<config, callerKeys, sockKey, nextMessageId>>

CloseAllConnections ==
    /\ Install(closeAllConnections(Mgr), Op("closeAllConnections", "none", NoSock, 1000, 0, TRUE))
    /\ UNCHANGED <<config, callerKeys, sockKey, nextMessageId>>

(***************************************************************************)
(* Socket events and timers.                                               *)
(***************************************************************************)
\* 'open' of a socket that was connecting
SocketOpen(ws) ==
    /\ readyState[ws] = "connecting"
    /\ \E nOk \in 0..Len(messageQueues[sockKey[ws]]) :
         Install(onOpen(Mgr, ws, nOk),
                 Op("open", sockKey[ws], ws, 0, 0, nOk = Len(messageQueues[sockKey[ws]])))
    /\ UNCHANGED <<config, callerKeys, sockKey, nextMessageId>>

\* 'error' of a socket.  A failed handshake emits 'error' and 'close' (1006)
\* back to back; an established socket emits 'error' and closes later.
SocketError(ws) ==
    /\ readyState[ws] \in {"connecting", "open"}
    /\ LET k == sockKey[ws]
       IN  IF readyState[ws] = "connecting"
           THEN Install(handleConnectionClose(
                            handleConnectionError([Mgr EXCEPT !.rs[ws] = "closed"], k), k, 1006),
                        Op("connectFailed", k, ws, 1006, 0, TRUE))
           ELSE Install(handleConnectionError([Mgr EXCEPT !.rs[ws] = "errored"], k),
                        Op("error", k, ws, 0, 0, TRUE))
    /\ UNCHANGED <<config, callerKeys, sockKey, nextMessageId>>

\* 'close' of a socket: code 1000 (normal) or 1006 (any other code)
SocketClose(ws, code) ==
    /\ readyState[ws] \in {"open", "closing", "errored"}
    /\ readyState[ws] = "errored" => code = 1006
    /\ Install(handleConnectionClose([Mgr EXCEPT !.rs[ws] = "closed"], sockKey[ws], code),
               Op("close", sockKey[ws], ws, code, 0, TRUE))
    /\ UNCHANGED <<config, callerKeys, sockKey, nextMessageId>>

\* the 10 s timer of createConnection, when it finds the key still Connecting
ConnectTimeout(ws) ==
    /\ readyState[ws] \in {"connecting", "open"}
    /\ connectionStatus[sockKey[ws]] = "connecting"
    /\ LET k == sockKey[ws]
       IN  IF readyState[ws] = "connecting"
           THEN Install(handleConnectionClose(
                            handleConnectionError([Mgr EXCEPT !.rs[ws] = "closed"], k), k, 1006),
                        Op("timeout", k, ws, 1006, 0, TRUE))
           ELSE Install([Mgr EXCEPT !.rs[ws] = "errored"], Op("timeout", k, ws, 0, 0, TRUE))
    /\ UNCHANGED <<config, callerKeys, sockKey, nextMessageId>>

\* 'message' of an open socket
SocketMessage(ws, data) ==
    /\ readyState[ws] = "open"
    /\ Install(onMessage(Mgr, sockKey[ws], data),
               [Op("message", sockKey[ws], ws, 0, 0, TRUE) EXCEPT !.frame = data])
    /\ UNCHANGED <<config, callerKeys, sockKey, nextMessageId>>

ReconnectTimerFire_ResetsCounter(k) ==
    /\ pendingReconnects[k] > 0
    /\ Install(emit([Mgr EXCEPT !.rpending[k] = @ - 1, !.rtimer[k] = FALSE, !.attempts[k] = 0],
                    "reconnectRequested", k, 0),
               Op("reconnectTimer", k, NoSock, 0, 0, TRUE))
    /\ UNCHANGED <<config, callerKeys, sockKey, nextMessageId>>

\* the setTimeout callback of handleReconnection
ReconnectTimerFire(k) ==
    /\ pendingReconnects[k] > 0
    /\ Install(emit([Mgr EXCEPT !.rpending[k] = @ - 1, !.rtimer[k] = FALSE],
                    "reconnectRequested", k, 0),
               Op("reconnectTimer", k, NoSock, 0, 0, TRUE))
    /\ UNCHANGED <<config, callerKeys, sockKey, nextMessageId>>

\* one tick of a setInterval timer of startHeartbeat
HeartbeatTick(k) ==
    /\ runningHeartbeats[k] > 0
    /\ \E throws \in BOOLEAN :
         /\ throws => isConnected(Mgr, k)
         /\ IF isConnected(Mgr, k)
            THEN IF throws
                 THEN Install(stopHeartbeat(Mgr, k), Op("heartbeat", k, connections[k], 0, 0, FALSE))
                 ELSE Install(emit(Mgr, "ping", k, connections[k]),
                              Op("heartbeat", k, connections[k], 0, 0, TRUE))
            ELSE Install(stopHeartbeat(Mgr, k), Op("heartbeat", k, NoSock, 0, 0, TRUE))
    /\ UNCHANGED <<config, callerKeys, sockKey, nextMessageId>>

(***************************************************************************)
(* TypeSafeAPIClient.                                                      *)
(***************************************************************************)
\* an APIError, as far as the model keeps it
NoError == [code |-> "", message |-> ""]

\* error.response.data: a body that is no object, and the objects a server sends
\* ("" is an absent field); the last one is what the mock server's error
\* endpoint answers
PlainBody == [object |-> FALSE, error |-> "", message |-> "", code |-> ""]
Bodies ==
    {PlainBody,
     [object |-> TRUE, error |-> "", message |-> "Sketch not found", code |-> ""],
     [object |-> TRUE, error |-> "Internal server error", message |-> "",
      code |-> "SERVER_ERROR"]}

\* error.message as the transport sets it
transportMessage(status) ==
    IF status = 0 THEN "Network Error"
    ELSE "Request failed with status code " \o ToString(status)

\* a ||-chain over strings: the first that is not empty
OrElse(a, b) == IF a # "" THEN a ELSE b

enhanceError_NoRequestCase(status, body) ==
    IF status # 0
    THEN IF body.object
         THEN [code |-> OrElse(body.code, "HTTP_" \o ToString(status)),
               message |-> OrElse(body.error, OrElse(body.message, transportMessage(status)))]
         ELSE [code |-> "HTTP_" \o ToString(status), message |-> transportMessage(status)]
    ELSE [code |-> "UNKNOWN_ERROR", message |-> transportMessage(status)]

\* enhanceError: the APIError of a failed request; status 0 is a request that
\* got no response
enhanceError(status, body) ==
    IF status # 0
    THEN IF body.object
         THEN [code |-> OrElse(body.code, "HTTP_" \o ToString(status)),
               message |-> OrElse(body.error, OrElse(body.message, transportMessage(status)))]
         ELSE [code |-> "HTTP_" \o ToString(status), message |-> transportMessage(status)]
    ELSE [code |-> "NETWORK_ERROR", message |-> "No response from server"]

\* triggerFallbackMode: writes a line to the console; ev are the notifications
\* delivered to subscribers so far
triggerFallbackMode(ev) == ev

\* the record kept in apiLast: the operation, its dedupe key, promise, call, the
\* status of a response and the delay of a rate-limit backoff; Respond adds err,
\* the APIError of the response, and ev, what it notified subscribers of
ApiOp(op, key, prom, call, status, delay) ==
    [op |-> op, key |-> key, prom |-> prom, call |-> call, status |-> status, delay |-> delay,
     body |-> PlainBody, err |-> NoError, ev |-> <<>>]

ApiInit ==
    /\ requestDeduplication = [k \in DedupeKeys |-> NoPromise]
    /\ promKey = [p \in CallIds |-> "none"]
    /\ promState = [p \in CallIds |-> "none"]
    /\ promOutcome = [p \in CallIds |-> "none"]
    /\ transportCalls = [p \in CallIds |-> 0]
    /\ graceTimers = [p \in CallIds |-> FALSE]
    /\ callProm = [c \in CallIds |-> NoPromise]
    /\ callResult = [c \in CallIds |-> "pending"]
    /\ callReq = [c \in CallIds |-> NoRequest]
    /\ callOverlap = [c \in CallIds |-> {}]
    /\ apiLast = ApiOp("init", "none", NoPromise, 0, 0, 0)

Settled(p) == promState[p] \in {"fulfilled", "rejected"}

\* the calls made so far
Issued == {c \in CallIds : callProm[c] # NoPromise}

\* deduplicatedRequest(key, requestFn), as getHealth and getSketchList call it:
\* an entry under the key is returned as it is, otherwise requestFn() runs (one
\* request to the transport) and its promise is registered
deduplicatedRequest(k, c, p) ==
    IF requestDeduplication[k] # NoPromise
    THEN LET q == requestDeduplication[k]
         IN  /\ callProm' = [callProm EXCEPT ![c] = q]
             /\ callResult' = [callResult EXCEPT ![c] = IF Settled(q) THEN promOutcome[q]
                                                          ELSE "pending"]
             /\ UNCHANGED <<requestDeduplication, promKey, promState, promOutcome,
                            transportCalls, graceTimers>>
    ELSE /\ promKey' = [promKey EXCEPT ![p] = k]
         /\ promState' = [promState EXCEPT ![p] = "inflight"]
         /\ transportCalls' = [transportCalls EXCEPT ![p] = 1]
         /\ requestDeduplication' = [requestDeduplication EXCEPT ![k] = p]
         /\ callProm' = [callProm EXCEPT ![c] = p]
         /\ UNCHANGED <<promOutcome, graceTimers, callResult>>

\* a method without dedup (getMetrics): this.client.get(...), one request to the
\* transport, nothing registered
directRequest(c, p) ==
    /\ promKey' = [promKey EXCEPT ![p] = Direct]
    /\ promState' = [promState EXCEPT ![p] = "inflight"]
    /\ transportCalls' = [transportCalls EXCEPT ![p] = 1]
    /\ callProm' = [callProm EXCEPT ![c] = p]
    /\ UNCHANGED <<requestDeduplication, promOutcome, graceTimers, callResult>>

\* a caller invokes a method of the client
Request(r) ==
    /\ \E c \in CallIds : callProm[c] = NoPromise
    /\ LET c == CHOOSE x \in CallIds :
                    callProm[x] = NoPromise /\ \A y \in CallIds : y < x => callProm[y] # NoPromise
           p == CHOOSE x \in CallIds :
                    promKey[x] = "none" /\ \A y \in CallIds : y < x => promKey[y] # "none"
           k == IF r.fn \in Deduplicated THEN cacheKey(r) ELSE Direct
       IN  /\ IF r.fn \in Deduplicated
              THEN deduplicatedRequest(k, c, p)
              ELSE directRequest(c, p)
           /\ callReq' = [callReq EXCEPT ![c] = r]
           /\ callOverlap' = [callOverlap EXCEPT ![c] =
                                {d \in Issued : k # Direct /\ promKey[callProm[d]] = k
                                                /\ ~Settled(callProm[d])}]
           /\ apiLast' = ApiOp("request", k, callProm'[c], c, 0, 0)
    /\ UNCHANGED <<wsVars, errVars>>

\* the promise of requestFn settles: the creator's finally schedules the delete
\* of the key, every caller attached to the promise observes the outcome
settle(p, state, outcome) ==
    /\ promState' = [promState EXCEPT ![p] = state]
    /\ promOutcome' = [promOutcome EXCEPT ![p] = outcome]
    /\ graceTimers' = [graceTimers EXCEPT ![p] = promKey[p] # Direct]
    /\ callResult' = [c \in CallIds |-> IF callProm[c] = p THEN outcome ELSE callResult[c]]

\* the requests handleRateLimit re-issued so far, over the promises ps
RECURSIVE Retries(_)
Retries(ps) ==
    IF ps = {} THEN 0
    ELSE LET p == CHOOSE x \in ps : TRUE
         IN  (IF transportCalls[p] > 0 THEN transportCalls[p] - 1 ELSE 0)
             + (IF promState[p] = "backoff" THEN 1 ELSE 0) + Retries(ps \ {p})

\* handleRateLimit: the delay is retry-after seconds, or 2^1 s without the header
rateLimitDelay(retryAfter) ==
    IF retryAfter # 0 THEN retryAfter * 1000 ELSE Pow(2, 1) * 1000

\* the statuses a server answers with; 0 stands for no response at all
Statuses == {200, 429, 500, 503, 0}

\* the response interceptors, for a response the transport delivers
Respond(p, status, retryAfter, body) ==
    /\ promState[p] = "inflight"
    /\ status # 429 => retryAfter = 0
    /\ status \in {200, 429, 0} => body = PlainBody
    /\ status = 429 => Retries(CallIds) < MaxRateLimited
    /\ LET enhancedError == enhanceError(status, body)
       IN  /\ CASE status = 200 -> settle(p, "fulfilled", "ok")
                 [] status = 429 -> /\ promState' = [promState EXCEPT ![p] = "backoff"]
                                    /\ UNCHANGED <<promOutcome, graceTimers, callResult>>
                 [] OTHER        -> settle(p, "rejected", enhancedError.code)
           /\ apiLast' = [ApiOp("response", promKey[p], p, 0, status,
                                IF status = 429 THEN rateLimitDelay(retryAfter) ELSE 0)
                              EXCEPT !.body = body,
                                     !.err = IF status \in {200, 429} THEN NoError
                                             ELSE enhancedError,
                                     !.ev = IF status = 503 THEN triggerFallbackMode(<<>>)
                                            ELSE <<>>]
    /\ UNCHANGED <<requestDeduplication, promKey, transportCalls, callProm, callReq,
                   callOverlap>>
    /\ UNCHANGED <<wsVars, errVars>>

\* handleRateLimit after its delay: this.client.request(error.config), which
\* passes through the same interceptors again
RateLimitRetry(p) ==
    /\ promState[p] = "backoff"
    /\ promState' = [promState EXCEPT ![p] = "inflight"]
    /\ transportCalls' = [transportCalls EXCEPT ![p] = @ + 1]
    /\ apiLast' = ApiOp("retry", promKey[p], p, 0, 0, 0)
    /\ UNCHANGED <<requestDeduplication, promKey, promOutcome, graceTimers, callProm,
                   callResult, callReq, callOverlap>>
    /\ UNCHANGED <<wsVars, errVars>>

\* the setTimeout callback of deduplicatedRequest: deletes whatever its key holds
GraceTimerFire(p) ==
    /\ graceTimers[p]
    /\ graceTimers' = [graceTimers EXCEPT ![p] = FALSE]
    /\ requestDeduplication' = [requestDeduplication EXCEPT ![promKey[p]] = NoPromise]
    /\ apiLast' = ApiOp("graceTimer", promKey[p], p, 0, 0, 0)
    /\ UNCHANGED <<promKey, promState, promOutcome, transportCalls, callProm, callResult,
                   callReq, callOverlap>>
    /\ UNCHANGED <<wsVars, errVars>>

\* getSessionInfo().activeRequests: the size of the dedup map
activeRequests == Cardinality({k \in DedupeKeys : requestDeduplication[k] # NoPromise})

\* requestDeduplication.clear(), on the map entries
clearCache_KeepsInFlight(entries) ==
    [k \in DedupeKeys |-> IF entries[k] # NoPromise /\ ~Settled(entries[k])
                          THEN entries[k] ELSE NoPromise]

clearCache(entries) == [k \in DedupeKeys |-> NoPromise]

\* clearCache()
ClearCache ==
    /\ requestDeduplication' = clearCache(requestDeduplication)
    /\ apiLast' = ApiOp("clearCache", "none", NoPromise, 0, 0, 0)
    /\ UNCHANGED <<promKey, promState, promOutcome, transportCalls, graceTimers, callProm,
                   callResult, callReq, callOverlap>>
    /\ UNCHANGED <<wsVars, errVars>>

\* dispose(): clearCache() and nothing else; requests and timers go on
Dispose ==
    /\ requestDeduplication' = clearCache(requestDeduplication)
    /\ apiLast' = ApiOp("dispose", "none", NoPromise, 0, 0, 0)
    /\ UNCHANGED <<promKey, promState, promOutcome, transportCalls, graceTimers, callProm,
                   callResult, callReq, callOverlap>>
    /\ UNCHANGED <<wsVars, errVars>>

(***************************************************************************)
(* ErrorManager: the error log.                                            *)
(***************************************************************************)
ErrInit ==
    /\ errorLog = <<>>
    /\ handled = <<>>
    /\ nextErrorId = 1

\* Array.prototype.slice(-n): the last n elements, and the whole array when n
\* is 0 or at least its length
sliceLast(arr, n) ==
    IF n = 0 \/ n >= Len(arr) THEN arr ELSE SubSeq(arr, Len(arr) - n + 1, Len(arr))

addToErrorLog_KeepsOldest(log, error) ==
    LET pushed == Append(log, error)
    IN  IF Len(pushed) > MaxLogSize THEN SubSeq(pushed, 1, MaxLogSize) ELSE pushed

\* addToErrorLog: push, then keep the last maxLogSize entries
addToErrorLog(log, error) ==
    LET pushed == Append(log, error)
    IN  IF Len(pushed) > MaxLogSize THEN sliceLast(pushed, MaxLogSize) ELSE pushed

\* handleError(error, severity, category): the ExtensionError goes into the
\* log before the fallback strategy, the report and the console line
HandleError(severity, category) ==
    /\ nextErrorId <= MaxErrors
    /\ LET extensionError == [id |-> nextErrorId, severity |-> severity, category |-> category]
       IN  /\ errorLog' = addToErrorLog(errorLog, extensionError)
           /\ handled' = Append(handled, extensionError)
    /\ nextErrorId' = nextErrorId + 1
    /\ UNCHANGED <<wsVars, apiVars>>

\* clearErrorLog()
ClearErrorLog ==
    /\ errorLog' = <<>>
    /\ handled' = <<>>
    /\ UNCHANGED nextErrorId
    /\ UNCHANGED <<wsVars, apiVars>>

NextErr ==
    \/ \E severity \in Severities, category \in Categories : HandleError(severity, category)
    \/ ClearErrorLog

\* the client with one request per dedupe key and responses without a body
NextApi ==
    \/ \E r \in {x \in ApiRequests : x.fn \in Deduplicated /\ x.options \in {"", "preview"}} :
          Request(r)
    \/ \E p \in CallIds, status \in Statuses \ {500}, retryAfter \in {0, 5} :
          Respond(p, status, retryAfter, PlainBody)
    \/ \E p \in CallIds : RateLimitRetry(p)
    \/ \E p \in CallIds : GraceTimerFire(p)
    \/ ClearCache
    \/ Dispose

\* the client with every request and every response
NextApiFull ==
    \/ \E r \in ApiRequests : Request(r)
    \/ \E p \in CallIds, status \in Statuses, retryAfter \in {0, 5}, body \in Bodies :
          Respond(p, status, retryAfter, body)
    \/ \E p \in CallIds : RateLimitRetry(p)
    \/ \E p \in CallIds : GraceTimerFire(p)
    \/ ClearCache
    \/ Dispose

Next ==
    \/ \E k \in callerKeys : ConnectToKey(k)
    \/ \E k \in callerKeys : SendMessage(k)
    \/ \E k \in callerKeys : CloseConnection(k)
    \/ CloseAllConnections
    \/ \E ws \in SockIds : SocketOpen(ws)
    \/ \E ws \in SockIds : SocketError(ws)
    \/ \E ws \in SockIds, code \in {1000, 1006} : SocketClose(ws, code)
    \/ \E ws \in SockIds : ConnectTimeout(ws)
    \/ \E k \in callerKeys : ReconnectTimerFire(k)
    \/ \E k \in callerKeys : HeartbeatTick(k)

\* the manager with the frames its sockets receive
NextMsg ==
    \/ Next
    \/ \E ws \in SockIds, data \in FrameData : SocketMessage(ws, data)

\* one manager used for the key 'server', one request client
Init ==
    /\ WsInit({"server"})
    /\ ApiInit
    /\ ErrInit

\* one manager used for both keys
InitKeys ==
    /\ WsInit(Keys)
    /\ ApiInit
    /\ ErrInit

\* the connection manager
Spec == Init /\ [][Next]_vars

\* the connection manager with two keys in use, and its inbound frames
SpecKeys == InitKeys /\ [][NextMsg]_vars

\* the connection manager and its inbound frames
SpecMsg == Init /\ [][NextMsg]_vars

\* the request client
SpecApi == Init /\ [][NextApi]_vars
SpecApiFull == Init /\ [][NextApiFull]_vars

\* the error manager
SpecErr == Init /\ [][NextErr]_vars

(***************************************************************************)
(* Properties of the request client (under SpecApi and SpecApiFull).       *)
(***************************************************************************)

\* C1: two requests under one dedupe key, the second issued before the first
\* settled, share one promise (requestFn ran once for both) and, once both have
\* an outcome, the same outcome -- whatever other client operations interleave.
C1_DedupOneCall ==
    \A c \in Issued : \A d \in callOverlap[c] :
        /\ callProm[c] = callProm[d]
        /\ (callResult[c] # "pending" /\ callResult[d] # "pending")
              => callResult[c] = callResult[d]

\* C9: a rate-limited request is re-issued once, so one request causes at most
\* two transport calls.
C9_AtMostTwoTransportCalls ==
    \A p \in CallIds : transportCalls[p] <= 2

\* the entry of the settled promise p is inside its grace window
InWindow(p) ==
    Settled(p) /\ graceTimers[p] /\ requestDeduplication[promKey[p]] = p

\* C20: the entry of a settled request stays addressable until its own grace
\* window elapses (clearCache and dispose apart); a same-key request made inside
\* the window receives the settled outcome without a transport call; a same-key
\* request made when every window of the key has elapsed makes a transport call.
C20_GraceWindow ==
    /\ [][\A p \in CallIds :
             (InWindow(p) /\ graceTimers'[p] /\ apiLast'.op \notin {"clearCache", "dispose"})
             => requestDeduplication'[promKey[p]] = p]_vars
    /\ [][\A p \in CallIds :
             (InWindow(p) /\ apiLast'.op = "request" /\ apiLast'.key = promKey[p])
             => /\ apiLast'.prom = p
                /\ transportCalls' = transportCalls
                /\ callResult'[apiLast'.call] = promOutcome[p]]_vars
    /\ [][\A k \in DedupeKeys :
             (apiLast'.op = "request" /\ apiLast'.key = k
                /\ \A p \in CallIds : promKey[p] = k => (Settled(p) /\ ~graceTimers[p]))
             => /\ promKey[apiLast'.prom] = "none"
                /\ transportCalls'[apiLast'.prom] = 1]_vars

\* C21: an entry leaves the dedup map only when its own request has settled and
\* its own grace timer fires: no request, settlement, cache clear or timer of
\* another request removes or replaces an entry, least of all an unsettled one.
C21_EntryRemovedOnlyByOwnTimer ==
    [][\A k \in DedupeKeys :
          LET p == requestDeduplication[k]
          IN  (p # NoPromise /\ requestDeduplication'[k] # p)
              => (Settled(p) /\ apiLast'.op = "graceTimer" /\ apiLast'.prom = p)]_vars

\* C22: dispose() leaves the dedup map empty and touches nothing else: requests
\* in flight stay in flight, their retries and timers stay, and every caller
\* attached to a promise has the outcome the promise settled with.
C22_DisposeClearsAndCancelsNothing ==
    /\ [][apiLast'.op = "dispose" =>
             /\ activeRequests' = 0
             /\ UNCHANGED <<promKey, promState, promOutcome, transportCalls, graceTimers,
                            callProm, callResult>>]_vars
    /\ [](\A c \in Issued :
             callResult[c] = IF Settled(callProm[c]) THEN promOutcome[callProm[c]]
                             ELSE "pending")

\* dispose() ran with a request in flight whose entry it removed
C22_Witness ==
    /\ apiLast.op = "dispose"
    /\ activeRequests = 0
    /\ \E c \in Issued : promState[callProm[c]] = "inflight"

\* the message of an APIError: from the structured body when it has one, else
\* the transport's
ExpectedMessage(status, body) ==
    IF body.object /\ (body.error # "" \/ body.message # "")
    THEN OrElse(body.error, body.message)
    ELSE transportMessage(status)

\* C23: a response with a status that is neither 2xx nor 429 fails the request
\* with the code HTTP_<status> of exactly that status, whatever the body holds,
\* and with the body's message when it has one, else the transport's message
C23_KindIsStatusAlone ==
    (apiLast.op = "response" /\ apiLast.status \notin {0, 200, 429})
    => /\ promState[apiLast.prom] = "rejected"
       /\ apiLast.err.code = "HTTP_" \o ToString(apiLast.status)
       /\ \A c \in Issued : callProm[c] = apiLast.prom => callResult[c] = apiLast.err.code
       /\ apiLast.err.message = ExpectedMessage(apiLast.status, apiLast.body)

\* C24: a request that gets no response is rejected with NETWORK_ERROR, every
\* caller waiting on it sees that error, and nothing is sent again
C24_NoResponseIsNetworkError ==
    [][(apiLast'.op = "response" /\ apiLast'.status = 0)
       => /\ promState'[apiLast'.prom] = "rejected"
          /\ apiLast'.err.code = "NETWORK_ERROR"
          /\ \A c \in Issued : callProm[c] = apiLast'.prom => callResult'[c] = "NETWORK_ERROR"
          /\ UNCHANGED transportCalls]_vars

\* a request sent once got no response and its caller holds NETWORK_ERROR
C24_Witness ==
    /\ apiLast.op = "response" /\ apiLast.status = 0
    /\ \E c \in Issued : callProm[c] = apiLast.prom /\ callResult[c] = "NETWORK_ERROR"
    /\ transportCalls[apiLast.prom] = 1

\* C25: a 503 response fails the request with the code HTTP_503, delivers a
\* "backend unavailable" notification to subscribers, sends nothing again and
\* changes nothing else of the client
C25_UnavailableNotifies ==
    [][(apiLast'.op = "response" /\ apiLast'.status = 503)
       => /\ promState'[apiLast'.prom] = "rejected"
          /\ apiLast'.err.code = "HTTP_503"
          /\ \E i \in DOMAIN apiLast'.ev : apiLast'.ev[i] = "backend unavailable"
          /\ UNCHANGED <<requestDeduplication, transportCalls, promKey, callProm>>]_vars

\* C28: callers share a promise only when their requests agree in method,
\* path and body, and every method registers its request in the dedup map
C28_KeyIsMethodPathBody ==
    [][apiLast'.op = "request"
       => LET c == apiLast'.call
          IN  /\ \A d \in Issued : callProm'[c] = callProm[d]
                     => requestLine(callReq[d]) = requestLine(callReq'[c])
              /\ \E k \in DedupeKeys : requestDeduplication'[k] = callProm'[c]]_vars

(***************************************************************************)
(* Properties of the connection manager (under Spec).                      *)
(***************************************************************************)
\* the 'open' step of socket ws that takes its key into Connected
OpensInto(ws) ==
    /\ last'.op = "open"
    /\ last'.sock = ws
    /\ connectionStatus[sockKey[ws]] # "connected"

\* a message is transmitted only on a socket that is open
TxOnOpenSocket ==
    last.tx # <<>> => (last.sock # NoSock /\ readyState[last.sock] = "open")

C3_FailedAfterMaxAttempts ==
    [][\A k \in Keys :
          (last'.code = 1006 /\ last'.key = k /\ last'.op \in {"close", "connectFailed", "timeout"}
             /\ reconnectAttempts[k] >= config.maxReconnectAttempts)
          => connectionStatus'[k] = "failed"]_vars

\* C4: the k-th delay scheduled since the counter was last reset equals
\* min(reconnectInterval * reconnectBackoffMultiplier^(k-1), maxReconnectInterval);
\* the delays are non-decreasing and never exceed the cap.
C4_BackoffSchedule ==
    \A k \in Keys :
        /\ \A i \in 1..Len(delays[k]) :
              /\ delays[k][i] = Min(config.reconnectInterval
                                      * Pow(config.reconnectBackoffMultiplier, i - 1),
                                    config.maxReconnectInterval)
              /\ delays[k][i] <= config.maxReconnectInterval
        /\ \A i \in 1..(Len(delays[k]) - 1) : delays[k][i] <= delays[k][i + 1]

\* a run of two scheduled reconnects, the second one at the cap
C4_Witness ==
    \E k \in Keys : Len(delays[k]) = 2 /\ delays[k][2] = config.maxReconnectInterval
                    /\ delays[k][1] < delays[k][2]

\* C5: a queue never holds more than messageQueueMaxSize messages; a message
\* queued onto a full queue is kept at the tail and the oldest one is evicted.
C5_QueueBound ==
    /\ [](\A k \in Keys : Len(messageQueues[k]) <= config.messageQueueMaxSize)
    /\ [][\A k \in Keys :
             (last'.op = "sendMessage" /\ last'.key = k /\ last'.ok /\ last'.tx = <<>>
                /\ Len(messageQueues[k]) = config.messageQueueMaxSize)
             => messageQueues'[k] = Append(Tail(messageQueues[k]), last'.n)]_vars

\* a sendMessage found the queue full: the oldest message went, the new one is last
C5_Witness ==
    /\ last.op = "sendMessage"
    /\ last.code # 0
    /\ Len(messageQueues[last.key]) = config.messageQueueMaxSize
    /\ messageQueues[last.key][Len(messageQueues[last.key])] = last.n

\* C6: at most one live (connecting or open) socket exists per key.
C6_OneLiveSocketPerKey ==
    \A k \in Keys :
        Cardinality({s \in SockIds : sockKey[s] = k /\ readyState[s] \in {"connecting", "open"}}) <= 1

\* the edges of the specified connection state machine
StatusEdges ==
    {<<"disconnected", "connecting">>, <<"connecting", "connected">>,
     <<"connected", "disconnected">>,
     <<"connected", "reconnecting">>, <<"connecting", "reconnecting">>,
     <<"connected", "failed">>, <<"connecting", "failed">>,
     <<"reconnecting", "connecting">>}

\* C7: every change of a key's status follows an edge of the state machine
\* (closeConnection, which drops the status entry, is not counted).
C7_OnlySpecifiedEdges ==
    [][\A k \in Keys :
          connectionStatus'[k] # connectionStatus[k]
          => \/ last'.op \in {"closeConnection", "closeAllConnections"}
             \/ <<connectionStatus[k], connectionStatus'[k]>> \in StatusEdges]_vars

\* C8: when the reconnect timer of a Reconnecting key elapses, the key becomes
\* Connecting.
C8_TimerStartsConnecting ==
    [][\A k \in Keys :
          (last'.op = "reconnectTimer" /\ last'.key = k /\ connectionStatus[k] = "reconnecting")
          => connectionStatus'[k] = "connecting"]_vars

\* C10: right after closeConnection(key) the key has no live socket, no heartbeat
\* timer, no reconnect timer, no queue, and reads Disconnected.
C10_CloseReleasesEverything ==
    last.op = "closeConnection" =>
        LET k == last.key
        IN  /\ connectionStatus[k] = "disconnected"
            /\ connections[k] = NoSock
            /\ ~heartbeatTimers[k] /\ runningHeartbeats[k] = 0
            /\ ~reconnectTimers[k] /\ pendingReconnects[k] = 0
            /\ messageQueues[k] = <<>>
            /\ \A s \in SockIds : sockKey[s] = k => readyState[s] \notin {"connecting", "open"}

\* the notifications named name that the last operation emitted for key k
Emitted(name, k) ==
    {i \in 1..Len(last.ev) : last.ev[i].name = name /\ last.ev[i].key = k}

\* C11: right after closeAllConnections every key -- also one that is Connecting
\* or Reconnecting and has no registered socket -- is cleaned up as closeConnection
\* would: no socket, status Disconnected, counter 0, no timers, no queue.
C11_CloseAllCleansEveryKey ==
    last.op = "closeAllConnections" =>
        \A k \in Keys :
            /\ connectionStatus[k] = "disconnected"
            /\ connections[k] = NoSock
            /\ reconnectAttempts[k] = 0
            /\ ~heartbeatTimers[k]
            /\ ~reconnectTimers[k]
            /\ messageQueues[k] = <<>>

\* C12: the close with code 1000 of a socket whose key is Connected leaves the
\* key Disconnected, schedules no reconnect timer (the handler hands nothing to
\* setTimeout) and leaves the counter as it was.
C12_CleanCloseTerminal ==
    (last.op = "close" /\ last.code = 1000 /\ last.from = "connected") =>
        /\ connectionStatus[last.key] = "disconnected"
        /\ reconnectAttempts[last.key] = last.att
        /\ Emitted("setTimeout", last.key) = {}

\* a Connected key's socket closed with code 1000
C12_Witness ==
    /\ last.op = "close" /\ last.code = 1000 /\ last.from = "connected"
    /\ connectionStatus[last.key] = "disconnected"
    /\ Emitted("disconnected", last.key) # {}

\* a later connection attempt of the key of socket ws is still under way
LaterAttempt(ws) ==
    \E s \in SockIds : s > ws /\ sockKey[s] = sockKey[ws] /\ readyState[s] = "connecting"

\* C13: the open timeout of an attempt that finds its key Connecting fails that
\* attempt: the key becomes Reconnecting (counter below the maximum) or Failed
\* (counter at the maximum); the timeout of an earlier attempt leaves a later
\* attempt of the key, and so the key's Connecting status, alone.
C13_OpenTimeoutFailsItsAttempt ==
    (last.op = "timeout" /\ last.from = "connecting") =>
        IF LaterAttempt(last.sock)
        THEN connectionStatus[last.key] = "connecting"
        ELSE last.code = 1006 =>
                connectionStatus[last.key] = IF last.att < config.maxReconnectAttempts
                                             THEN "reconnecting" ELSE "failed"

CounterStep(k, resetters) ==
    last.key = k =>
        IF reconnectAttempts[k] < last.att
        THEN reconnectAttempts[k] = 0 /\ last.op \in resetters
        ELSE reconnectAttempts[k] = last.att + Cardinality(Emitted("setTimeout", k))

\* C15 as stated: only a successful open of the key's socket resets the counter;
\* otherwise it grows by one per scheduled reconnect.
C15_ResetOnlyByOpen ==
    \A k \in Keys : CounterStep(k, {"open"})

\* C15, amended: only a successful open of the key's socket, or closeConnection /
\* closeAllConnections discarding the key's state, resets the counter; no connect
\* call, failure, timer or inbound frame does; otherwise it grows by one per
\* scheduled reconnect.
C15_ResetOnlyByOpenOrClose ==
    \A k \in Keys : CounterStep(k, {"open", "closeConnection"})

\* an open reset a counter that was above 0
C15_Witness ==
    last.op = "open" /\ last.att > 0 /\ reconnectAttempts[last.key] = 0

\* C19: a flush in which a transmission fails stops there: what it transmitted
\* is the front of the queue, in order; the failed message and the messages behind
\* it stay queued in their order, the failed one first.  The queue is then changed
\* only by a sendMessage that queues, by closeConnection / closeAllConnections, and
\* by the next open of the key, which transmits it from the front in that order.
C19_FlushFailureKeepsRest ==
    /\ [][\A ws \in SockIds : (last'.op = "open" /\ last'.sock = ws) =>
             LET k == sockKey[ws]
                 q == messageQueues[k]
                 n == Len(last'.tx)
             IN  /\ last'.tx = SubSeq(q, 1, n)
                 /\ messageQueues'[k] = SubSeq(q, n + 1, Len(q))
                 /\ last'.ok <=> n = Len(q)]_vars
    /\ [][\A k \in Keys : messageQueues'[k] # messageQueues[k] =>
             last'.op \in {"sendMessage", "open", "closeConnection",
                           "closeAllConnections"}]_vars

\* a flush transmitted a message, failed on the next one and kept it queued
C19_Witness ==
    /\ last.op = "open" /\ ~last.ok
    /\ Len(last.tx) >= 1
    /\ Len(messageQueues[last.key]) >= 1
    /\ messageQueues[last.key][1] > last.tx[Len(last.tx)]

(***************************************************************************)
(* Properties of inbound frames (under SpecMsg).                           *)
(***************************************************************************)
\* the notifications the last operation emitted besides the generic 'message'
NonGeneric == {i \in 1..Len(last.ev) : last.ev[i].name # "message"}

\* C16: a frame whose type is outside the known set leaves the socket open and
\* the key's status, counter, timers and queue as they were, and subscribers
\* receive a warning notification for it (a notification other than the
\* generic 'message').
C16_UnknownTypeWarns ==
    [][(last'.op = "message" /\ last'.frame = "telemetry") =>
          /\ UNCHANGED <<connections, connectionStatus, reconnectAttempts, reconnectTimers,
                         heartbeatTimers, messageQueues, pendingReconnects,
                         runningHeartbeats, readyState>>
          /\ \E i \in 1..Len(last'.ev) : last'.ev[i].name # "message"]_vars

\* C17: an inbound frame of type ping or pong emits no notification at all.
C17_HeartbeatFramesSilent ==
    (last.op = "message" /\ last.frame \in HeartbeatTypes) => last.ev = <<>>

\* the non-heartbeat types of the wire contract
RecognizedTypes == KnownTypes \cup {"execution_started"}

\* C18: an inbound frame of a recognized non-heartbeat type emits exactly one
\* type-specific notification, carrying the frame's payload, and exactly one
\* generic 'message' notification.
C18_TypedAndGenericOnce ==
    (last.op = "message" /\ last.frame \in RecognizedTypes) =>
        /\ Cardinality(Emitted("message", last.key)) = 1
        /\ Cardinality(NonGeneric) = 1
        /\ \A i \in NonGeneric : last.ev[i].arg = FramePayload


(***************************************************************************)
(* Heartbeat, send routing and key independence (under Spec and SpecKeys). *)
(***************************************************************************)

\* C26: in every reachable state a key has a heartbeat timer only while its
\* status is Connected, and a heartbeat tick transmits a ping only for a key
\* whose status is Connected
C26_HeartbeatOnlyWhileConnected ==
    /\ \A k \in Keys : (heartbeatTimers[k] \/ runningHeartbeats[k] > 0)
                           => connectionStatus[k] = "connected"
    /\ (last.op = "heartbeat" /\ Emitted("ping", last.key) # {})
           => last.from = "connected"

\* C30: a sendMessage that does not throw transmits its message at once and
\* leaves the queue alone when the key's status is Connected; in every other
\* status it transmits nothing and the message becomes the tail of the queue
C30_SendRoutedByStatus ==
    [][(last'.op = "sendMessage" /\ last'.ok)
       => LET k == last'.key
          IN  IF connectionStatus[k] = "connected"
              THEN /\ last'.tx = <<last'.n>>
                   /\ messageQueues'[k] = messageQueues[k]
              ELSE /\ last'.tx = <<>>
                   /\ messageQueues'[k] # <<>>
                   /\ messageQueues'[k][Len(messageQueues'[k])] = last'.n]_vars

\* what the manager holds for key k: status, registered socket, reconnect
\* counter, timers and queue
KeyState(k) ==
    <<connectionStatus[k], connections[k], reconnectAttempts[k], reconnectTimers[k],
      pendingReconnects[k], heartbeatTimers[k], runningHeartbeats[k], messageQueues[k]>>

\* C27: an operation or event on one key (connect, send, close, a socket's open,
\* close, error or frame, a timer firing, the open timeout) leaves every other
\* key's status, socket, counter, timers and queue, and the sockets created for
\* other keys, as they were
C27_KeysIndependent ==
    [][last'.op # "closeAllConnections"
       => /\ \A k \in Keys \ {last'.key} : KeyState(k)' = KeyState(k)
          /\ \A ws \in SockIds : sockKey[ws] \notin {"none", last'.key}
                 => readyState'[ws] = readyState[ws] /\ sockKey'[ws] = sockKey[ws]]_vars

\* closeConnection ran on a connected 'server' while 'sketch-a' was connected
\* with a heartbeat
C27_Witness ==
    /\ last.op = "closeConnection" /\ last.key = "server"
    /\ connectionStatus["sketch-a"] = "connected" /\ heartbeatTimers["sketch-a"]
    /\ connections["sketch-a"] # NoSock
    /\ last.from = "connected" /\ connectionStatus["server"] = "disconnected"

(***************************************************************************)
(* Properties of the error log (under SpecErr).                            *)
(***************************************************************************)

\* C29: the error log never holds more than maxLogSize entries, and they are
\* the errors handled last since the log was cleared, in the order they were
\* handled; clearErrorLog leaves the log empty
C29_LogKeepsMostRecent ==
    /\ [](/\ Len(errorLog) <= MaxLogSize
          /\ Len(errorLog) = Min(Len(handled), MaxLogSize)
          /\ \A i \in 1..Len(errorLog) :
                errorLog[i] = handled[Len(handled) - Len(errorLog) + i])
    /\ [][handled' = <<>> => errorLog' = <<>>]_vars

\* more errors were handled than the log holds, and the log is full
C29_Witness ==
    /\ Len(errorLog) = MaxLogSize
    /\ Len(handled) > MaxLogSize
    /\ errorLog[1].id > 1

(***************************************************************************)
(* Heartbeat failure, reconnect accounting, superseded sockets, the socket  *)
(* table, outbound messages and statistics (under Spec and SpecKeys).       *)
(***************************************************************************)

\* C31: a heartbeat tick whose ping fails to transmit leaves the key without
\* a heartbeat timer and without a running interval, and leaves its status as
\* it was; an open of the key leaves it with a heartbeat timer
C31_PingFailureStopsHeartbeat ==
    /\ [][(last'.op = "heartbeat" /\ ~last'.ok)
          => /\ ~heartbeatTimers'[last'.key]
             /\ runningHeartbeats'[last'.key] = 0
             /\ connectionStatus'[last'.key] = connectionStatus[last'.key]]_vars
    /\ [][last'.op = "open"
          => heartbeatTimers'[last'.key] /\ runningHeartbeats'[last'.key] > 0]_vars

\* C32: a key never has more than one reconnect timer pending; the 'close'
\* that follows the 'error' of a socket does not consume a second attempt when
\* the 'error' consumed one; closeConnection leaves no reconnect timer pending,
\* so no 'reconnectRequested' follows it
C32_OneFailureOneRetry ==
    /\ [](\A k \in Keys : pendingReconnects[k] <= 1)
    /\ [][(/\ last'.op = "close" /\ last.op = "error" /\ last.sock = last'.sock
           /\ reconnectAttempts[last.key] > last.att)
          => reconnectAttempts'[last'.key] = reconnectAttempts[last'.key]]_vars
    /\ [][last'.op = "closeConnection" => pendingReconnects'[last'.key] = 0]_vars

\* a socket that is no longer its key's current attempt: closeConnection closed
\* it, or a newer socket was created for the key
Superseded(ws) ==
    \/ readyState[ws] = "closing"
    \/ \E newer \in SockIds : newer > ws /\ sockKey[newer] = sockKey[ws]

\* C33: an open, close, error or timeout event of a socket that is no longer
\* its key's current attempt leaves the key's status, registered socket,
\* heartbeat and reconnect timer as they were
C33_SupersededSocketInert ==
    [][(/\ last'.op \in {"open", "close", "error", "connectFailed", "timeout"}
        /\ Superseded(last'.sock))
       => LET k == last'.key
          IN  /\ connectionStatus'[k] = connectionStatus[k]
              /\ connections'[k] = connections[k]
              /\ heartbeatTimers'[k] = heartbeatTimers[k]
              /\ runningHeartbeats'[k] = runningHeartbeats[k]
              /\ reconnectTimers'[k] = reconnectTimers[k]
              /\ pendingReconnects'[k] = pendingReconnects[k]]_vars

\* C34: a key never has more interval timers running than its entry in the
\* heartbeat table accounts for: none without an entry, one with it
C34_OneHeartbeatPerKey ==
    \A k \in Keys : runningHeartbeats[k] = IF heartbeatTimers[k] THEN 1 ELSE 0

\* C35: the reconnect counter of every key lies between 0 and
\* maxReconnectAttempts, and every reconnect timer an operation schedules
\* belongs to an increment of the counter from a value below the maximum
C35_CounterWithinLimit ==
    /\ \A k \in Keys : reconnectAttempts[k] \in 0..config.maxReconnectAttempts
    /\ Emitted("setTimeout", last.key) # {}
          => /\ last.att < config.maxReconnectAttempts
             /\ reconnectAttempts[last.key]
                   = last.att + Cardinality(Emitted("setTimeout", last.key))

\* a reconnect was scheduled that took the counter to the maximum
C35_Witness ==
    /\ Emitted("setTimeout", last.key) # {}
    /\ config.maxReconnectAttempts > 0
    /\ reconnectAttempts[last.key] = config.maxReconnectAttempts

\* the socket of key k that opened last: the one the latest 'open' of the key
\* registered
OpenedLast(k, ws) == last.op = "open" /\ last.key = k => last.sock = ws

\* C36: a key has a socket registered only while its status is Connected, and
\* right after an open of a key whose status is Connected the registered
\* socket is the one that opened
C36_SocketTableAgreesWithStatus ==
    /\ \A k \in Keys : connections[k] # NoSock => connectionStatus[k] = "connected"
    /\ \A k \in Keys : connectionStatus[k] = "connected"
          => connections[k] # NoSock /\ OpenedLast(k, connections[k])

\* x is an element of the sequence q, and its place in q
InSeq(x, q) == \E i \in DOMAIN q : q[i] = x
Pos(x, q) == CHOOSE i \in DOMAIN q : q[i] = x

\* C37: in every step, a transmitted message came from the key's queue or is
\* the message of this sendMessage, is transmitted once and is in no queue
\* afterwards; a message leaves a queue only transmitted, evicted as the oldest
\* by a sendMessage that queued, or discarded by closeConnection or
\* closeAllConnections; and the messages that stay keep their order
C37_NoDuplicationNoSilentLoss ==
    [][/\ \A i \in DOMAIN last'.tx :
             /\ \/ InSeq(last'.tx[i], messageQueues[last'.key])
                \/ last'.op = "sendMessage" /\ last'.tx[i] = last'.n
             /\ \A j \in DOMAIN last'.tx : last'.tx[j] = last'.tx[i] => j = i
             /\ \A k \in Keys : ~InSeq(last'.tx[i], messageQueues'[k])
       /\ \A k \in Keys :
             LET q  == messageQueues[k]
                 q2 == messageQueues'[k]
             IN  /\ \A i \in DOMAIN q : ~InSeq(q[i], q2)
                       => \/ InSeq(q[i], last'.tx)
                          \/ last'.op = "sendMessage" /\ last'.code = q[i] /\ i = 1
                                /\ last'.tx = <<>>
                          \/ last'.op \in {"closeConnection", "closeAllConnections"}
                 /\ \A i, j \in DOMAIN q :
                       (i < j /\ InSeq(q[i], q2) /\ InSeq(q[j], q2))
                          => Pos(q[i], q2) < Pos(q[j], q2)
                 /\ \A i, j \in DOMAIN q2 : q2[i] = q2[j] => i = j]_vars

\* an open flushed part of the queue: one message went out, the send of the
\* next one threw and it stayed queued
C37_Witness ==
    /\ last.op = "open" /\ ~last.ok
    /\ last.tx # <<>>
    /\ messageQueues[last.key] # <<>>

\* C38: a sendMessage whose transmit fails rejects, transmits nothing, does
\* not queue its message, and leaves the key's status, socket, counter, timers
\* and queue as they were
C38_FailedSendChangesNothing ==
    [][(last'.op = "sendMessage" /\ ~last'.ok)
       => /\ last'.tx = <<>>
          /\ ~InSeq(last'.n, messageQueues'[last'.key])
          /\ \A k \in Keys : k = last'.key => KeyState(k)' = KeyState(k)
          /\ readyState' = readyState]_vars

\* a sendMessage on a Connected key was rejected
C38_Witness ==
    /\ last.op = "sendMessage" /\ ~last.ok
    /\ last.from = "connected"
    /\ connectionStatus[last.key] = "connected"

\* C39: getConnectionStats reports as queuedMessages the number of messages
\* in the queues of all keys, and as reconnectingConnections the number of
\* keys whose status is Reconnecting
C39_StatsMatchState ==
    LET stats == getConnectionStats(Mgr)
    IN  /\ stats.queuedMessages = SumOver(Keys, [k \in Keys |-> Len(messageQueues[k])])
        /\ stats.reconnectingConnections
              = Cardinality({k \in Keys : connectionStatus[k] = "reconnecting"})

====
